---- MODULE Spec2Model ----
(***************************************************************************)
(* Model of rand_bind.rs: the bindings of the `rand` library exposed to    *)
(* the VM.  Five primitives are registered by load():                      *)
(*   next_int, next_float, gen_int_range  -- draws on rand::thread_rng()   *)
(*   xor_shift_new, xor_shift_next        -- the seeded XorShiftRng value  *)
(*                                                                         *)
(* The xorshift generator is modelled bit for bit: a 32-bit word is the    *)
(* set of its set bit positions (0 = least significant), so XOR is the     *)
(* symmetric difference and a shift moves the positions.                   *)
(*                                                                         *)
(* rand::thread_rng() is a thread-local generator seeded from OS entropy.  *)
(* It is modelled as one generator state per thread whose initial value is *)
(* arbitrary (the entropy), stepping deterministically; the machine word   *)
(* of the global draws is IntBits wide instead of 64.                      *)
(***************************************************************************)
EXTENDS Integers, Sequences, FiniteSets, TLC

\* ---- bounds of the model ----
NThreads == 2        \* VM threads calling the primitives
IntBits == 3         \* width of VmInt / of a thread_rng word in the model
MaxObjs == 6         \* XorShiftRng userdata values that may be allocated
SmallObjs == 2       \* heap room when all five primitives are interleaved

\* the thread load() was called on
MainThread == 1

\* ---- program constants ----
SeedLen == 16        \* seed.len() == 16
MsgElements == 4     \* "Expected xorshift seed to have 4 elements"
WordBits == 32       \* u32 words of rand_xorshift::XorShiftRng
ShiftA == 11         \* t = x ^ (x << 11)
ShiftB == 19         \* w ^ (w >> 19)
ShiftC == 8          \* t ^ (t >> 8)
ZeroSeedWord == 195911405   \* 0x0BAD5EED, replaces an all-zero seed

Threads == 1..NThreads
Mod == 2 ^ IntBits
VmInt == (0 - (Mod \div 2))..((Mod \div 2) - 1)

VARIABLES
    rng,     \* rng[k]: state of the thread-local generator with key k
    alive,   \* alive[t]: thread t has not been unwound by a Rust panic
    heap,    \* sequence of XorShiftRng userdata values, in allocation order
    news,    \* results of successful xor_shift_new calls held by the host
    recs,    \* { value, gen } records returned by xor_shift_next
    res      \* outcome of the last primitive call

vars == <<rng, alive, heap, news, recs, res>>

\* ---------------------------------------------------------------------
\* Bit-level helpers for the u32 words of the xorshift state
\* ---------------------------------------------------------------------
Xor(a, b) == (a \ b) \cup (b \ a)

Shl(a, k) == {i + k : i \in {j \in a : j + k < WordBits}}

Shr(a, k) == {i - k : i \in {j \in a : j >= k}}

\* bits of a non-negative number below 2^width
BitsOf(n, width) == {i \in 0..(width - 1) : (n \div (2 ^ i)) % 2 = 1}

\* ---------------------------------------------------------------------
\* Seed buffers handed to xor_shift_new
\* ---------------------------------------------------------------------
SeedBuf(len, f) == [i \in 1..len |-> (f * (16 * i + 7)) % 256]

\* 16 zero bytes and 16 bytes 23, 39, 55, ...
GoodSeeds == {SeedBuf(SeedLen, f) : f \in {0, 1}}

\* the empty buffer, one byte short, one byte long
BadSeeds == {SeedBuf(len, 1) : len \in {0, SeedLen - 1, SeedLen + 1}}

SeedBufs == GoodSeeds \cup BadSeeds

\* le::read_u32_into: word k (0..3) of the 16 seed bytes, little endian
read_u32(seed, k) ==
    UNION {{8 * j + b : b \in BitsOf(seed[4 * k + j + 1], 8)} : j \in 0..3}

\* XorShiftRng::from_seed: an all-zero seed is replaced by a preset value
from_seed(seed) ==
    LET s == [k \in 0..3 |-> read_u32(seed, k)]
        z == BitsOf(ZeroSeedWord, WordBits - 1)
    IN IF \A k \in 0..3 : s[k] = {}
       THEN [x |-> z, y |-> z, z |-> z, w |-> z]
       ELSE [x |-> s[0], y |-> s[1], z |-> s[2], w |-> s[3]]

\* XorShiftRng::next_u32 on a mutable state: the state after the step;
\* the word produced is the new w
next_u32(g) ==
    LET t == Xor(g.x, Shl(g.x, ShiftA))
    IN [x |-> g.y, y |-> g.z, z |-> g.w,
        w |-> Xor(Xor(g.w, Shr(g.w, ShiftB)), Xor(t, Shr(t, ShiftC)))]

\* gen.0.gen::<VmInt>(): next_u64 via two next_u32, (y << 32) | x,
\* reinterpreted as i64 (the bit pattern is kept as a set of positions)
gen_i64(g) ==
    LET g1 == next_u32(g)
        g2 == next_u32(g1)
    IN [value |-> g1.w \cup {i + WordBits : i \in g2.w}, gen |-> g2]

\* ---------------------------------------------------------------------
\* rand::thread_rng(): the generator of the calling thread
\* ---------------------------------------------------------------------
\* variant: one process-wide generator shared by every thread
thread_rng_static(t) == 1

thread_rng(t) == t

\* one word drawn from a thread-local generator state
ThreadStep(s) == (5 * s + 3) % Mod

ToSigned(u) == IF u >= Mod \div 2 THEN u - Mod ELSE u

LeadingZeros(u) == Cardinality({i \in 0..(IntBits - 1) : 2 ^ i > u})

\* UniformInt::sample_single after its assertion: widening multiply and
\* rejection of the words outside the zone
RECURSIVE SampleLoop(_, _, _, _)
SampleLoop(s, low, range, zone) ==
    LET s1 == ThreadStep(s)
        hi == (s1 * range) \div Mod
        lo == (s1 * range) % Mod
    IN IF lo <= zone
       THEN [value |-> ToSigned((low + hi) % Mod), rng |-> s1]
       ELSE SampleLoop(s1, low, range, zone)

\* Rng::gen_range(low, high) on generator state s: asserts low < high
gen_range(s, low, high) ==
    IF ~(low < high)
    THEN [ok |-> FALSE, value |-> 0, rng |-> s]
    ELSE LET range == (high - low) % Mod
             zone == ((((range * (2 ^ LeadingZeros(range))) % Mod) + Mod) - 1) % Mod
             d == SampleLoop(s, low, range, zone)
         IN [ok |-> TRUE, value |-> d.value, rng |-> d.rng]

\* ---------------------------------------------------------------------
\* Outcomes
\* ---------------------------------------------------------------------
NoSeed == <<>>
NoMsg == [text |-> "", expected |-> 0, unit |-> ""]
ErrMsg == [text |-> "Expected xorshift seed to have 4 elements",
           expected |-> MsgElements, unit |-> "elements"]

Outcome(op, t, status) ==
    [op |-> op, t |-> t, status |-> status, value |-> 0, bits |-> {},
     gen |-> 0, src |-> 0, low |-> 0, high |-> 0, seed |-> NoSeed, msg |-> NoMsg]

\* some thread is there to call a primitive
Calling == \E t \in Threads : alive[t]

Init ==
    /\ rng \in [Threads -> 0..(Mod - 1)]
    /\ alive = [t \in Threads |-> TRUE]
    /\ heap = <<>>
    /\ news = {}
    /\ recs = {}
    /\ res = Outcome("load", 0, "Value")

\* fn next_int(_: ()) -> IO<VmInt>
next_int(t) ==
    /\ alive[t]
    /\ LET k == thread_rng(t)
           s1 == ThreadStep(rng[k])
       IN /\ rng' = [rng EXCEPT ![k] = s1]
          /\ res' = [Outcome("next_int", t, "Value") EXCEPT !.value = ToSigned(s1)]
    /\ UNCHANGED <<alive, heap, news, recs>>

\* fn next_float(_: ()) -> IO<f64>: value is the numerator of a fraction
\* over 2^IntBits, in [0, 1)
next_float(t) ==
    /\ alive[t]
    /\ LET k == thread_rng(t)
           s1 == ThreadStep(rng[k])
       IN /\ rng' = [rng EXCEPT ![k] = s1]
          /\ res' = [Outcome("next_float", t, "Value") EXCEPT !.value = s1]
    /\ UNCHANGED <<alive, heap, news, recs>>

\* variant: an empty range quietly yields low
gen_int_range_lenient(t, low, high) ==
    /\ alive[t]
    /\ LET k == thread_rng(t)
           d == gen_range(rng[k], low, high)
       IN /\ rng' = [rng EXCEPT ![k] = d.rng]
          /\ res' = [Outcome("gen_int_range", t, "Value") EXCEPT
                       !.value = IF d.ok THEN d.value ELSE low,
                       !.low = low, !.high = high]
    /\ UNCHANGED <<alive, heap, news, recs>>

\* variant: the upper bound is taken as inclusive
gen_int_range_inclusive(t, low, high) ==
    /\ alive[t]
    /\ LET k == thread_rng(t)
           d == gen_range(rng[k], low, high + 1)
       IN IF low < high
          THEN /\ rng' = [rng EXCEPT ![k] = d.rng]
               /\ alive' = alive
               /\ res' = [Outcome("gen_int_range", t, "Value") EXCEPT
                            !.value = d.value, !.low = low, !.high = high]
          ELSE /\ rng' = rng
               /\ alive' = [alive EXCEPT ![t] = FALSE]
               /\ res' = [Outcome("gen_int_range", t, "RustPanic") EXCEPT
                            !.low = low, !.high = high]
    /\ UNCHANGED <<heap, news, recs>>

\* variant: a word is drawn before the range is looked at
gen_int_range_drawfirst(t, low, high) ==
    /\ alive[t]
    /\ LET k == thread_rng(t)
           s1 == ThreadStep(rng[k])
           d == gen_range(s1, low, high)
       IN IF d.ok
          THEN /\ rng' = [rng EXCEPT ![k] = d.rng]
               /\ alive' = alive
               /\ res' = [Outcome("gen_int_range", t, "Value") EXCEPT
                            !.value = d.value, !.low = low, !.high = high]
          ELSE /\ rng' = [rng EXCEPT ![k] = s1]
               /\ alive' = [alive EXCEPT ![t] = FALSE]
               /\ res' = [Outcome("gen_int_range", t, "RustPanic") EXCEPT
                            !.low = low, !.high = high]
    /\ UNCHANGED <<heap, news, recs>>

\* fn gen_int_range(low: VmInt, high: VmInt) -> IO<VmInt>
\* No check of its own: the assertion inside gen_range panics the thread.
gen_int_range(t, low, high) ==
    /\ alive[t]
    /\ LET k == thread_rng(t)
           d == gen_range(rng[k], low, high)
       IN IF d.ok
          THEN /\ rng' = [rng EXCEPT ![k] = d.rng]
               /\ alive' = alive
               /\ res' = [Outcome("gen_int_range", t, "Value") EXCEPT
                            !.value = d.value, !.low = low, !.high = high]
          ELSE /\ rng' = rng
               /\ alive' = [alive EXCEPT ![t] = FALSE]
               /\ res' = [Outcome("gen_int_range", t, "RustPanic") EXCEPT
                            !.low = low, !.high = high]
    /\ UNCHANGED <<heap, news, recs>>

\* variant: the length test accepts any buffer of at most 16 bytes, the
\* missing bytes read as zero
xor_shift_new_atmost(seed) ==
    /\ Calling
    /\ IF Len(seed) <= SeedLen
       THEN /\ heap' = Append(heap,
                 from_seed([i \in 1..SeedLen |-> IF i <= Len(seed) THEN seed[i] ELSE 0]))
            /\ news' = news \cup {[seed |-> seed, gen |-> Len(heap) + 1]}
            /\ res' = [Outcome("xor_shift_new", 0, "Return") EXCEPT
                         !.gen = Len(heap) + 1, !.seed = seed]
       ELSE /\ heap' = heap
            /\ news' = news
            /\ res' = [Outcome("xor_shift_new", 0, "Panic") EXCEPT
                         !.seed = seed, !.msg = ErrMsg]
    /\ UNCHANGED <<rng, alive, recs>>

\* variant: the first seed byte is mixed with the address of the new value
xor_shift_new_addr(seed) ==
    /\ Calling
    /\ IF Len(seed) = SeedLen
       THEN /\ heap' = Append(heap,
                 from_seed([seed EXCEPT ![1] = (seed[1] + Len(heap)) % 256]))
            /\ news' = news \cup {[seed |-> seed, gen |-> Len(heap) + 1]}
            /\ res' = [Outcome("xor_shift_new", 0, "Return") EXCEPT
                         !.gen = Len(heap) + 1, !.seed = seed]
       ELSE /\ heap' = heap
            /\ news' = news
            /\ res' = [Outcome("xor_shift_new", 0, "Panic") EXCEPT
                         !.seed = seed, !.msg = ErrMsg]
    /\ UNCHANGED <<rng, alive, recs>>

\* fn xor_shift_new(seed: &[u8]) -> RuntimeResult<XorShiftRng, String>
xor_shift_new(seed) ==
    /\ Calling
    /\ IF Len(seed) = SeedLen
       THEN /\ heap' = Append(heap, from_seed(seed))
            /\ news' = news \cup {[seed |-> seed, gen |-> Len(heap) + 1]}
            /\ res' = [Outcome("xor_shift_new", 0, "Return") EXCEPT
                         !.gen = Len(heap) + 1, !.seed = seed]
       ELSE /\ heap' = heap
            /\ news' = news
            /\ res' = [Outcome("xor_shift_new", 0, "Panic") EXCEPT
                         !.seed = seed, !.msg = ErrMsg]
    /\ UNCHANGED <<rng, alive, recs>>

\* variant: the generator behind the reference is advanced, no clone
xor_shift_next_inplace(i) ==
    /\ Calling
    /\ i \in 1..Len(heap)
    /\ LET d == gen_i64(heap[i])
           j == Len(heap) + 1
       IN /\ heap' = Append([heap EXCEPT ![i] = d.gen], d.gen)
          /\ recs' = recs \cup {[src |-> i, value |-> d.value, gen |-> j]}
          /\ res' = [Outcome("xor_shift_next", 0, "Value") EXCEPT
                       !.bits = d.value, !.gen = j, !.src = i]
    /\ UNCHANGED <<rng, alive, news>>

\* variant: the record's gen field is filled before the value is drawn
xor_shift_next_stale(i) ==
    /\ Calling
    /\ i \in 1..Len(heap)
    /\ LET gen == heap[i]
           d == gen_i64(gen)
           j == Len(heap) + 1
       IN /\ heap' = Append(heap, gen)
          /\ recs' = recs \cup {[src |-> i, value |-> d.value, gen |-> j]}
          /\ res' = [Outcome("xor_shift_next", 0, "Value") EXCEPT
                       !.bits = d.value, !.gen = j, !.src = i]
    /\ UNCHANGED <<rng, alive, news>>

\* fn xor_shift_next(gen: &XorShiftRng) -> RngNext<XorShiftRng>
\* clone, draw from the clone, then move the clone into the record
xor_shift_next(i) ==
    /\ Calling
    /\ i \in 1..Len(heap)
    /\ LET gen == heap[i]
           d == gen_i64(gen)
           j == Len(heap) + 1
       IN /\ heap' = Append(heap, d.gen)
          /\ recs' = recs \cup {[src |-> i, value |-> d.value, gen |-> j]}
          /\ res' = [Outcome("xor_shift_next", 0, "Value") EXCEPT
                       !.bits = d.value, !.gen = j, !.src = i]
    /\ UNCHANGED <<rng, alive, news>>

\* the userdata heap of the model has room for one more value
Room(cap) == Len(heap) < cap

\* arguments tried for gen_int_range: the extremes of VmInt and both
\* neighbours of zero
RangeArgs == {0 - (Mod \div 2), 0 - 1, 1, (Mod \div 2) - 1}

GlobalCalls(T) ==
    \/ \E t \in T : next_int(t)
    \/ \E t \in T : next_float(t)
    \/ \E t \in T : \E low \in RangeArgs : \E high \in RangeArgs :
          gen_int_range(t, low, high)

SeededCalls(cap) ==
    \/ \E seed \in SeedBufs : (Len(seed) = SeedLen => Room(cap)) /\ xor_shift_new(seed)
    \/ \E i \in 1..cap : Room(cap) /\ xor_shift_next(i)

\* every primitive registered by load(), called from the main thread on a
\* small heap; the other threads have not drawn yet
InitMain ==
    /\ Init
    /\ \A t \in Threads \ {MainThread} : rng[t] = 0

Next ==
    \/ GlobalCalls({MainThread})
    \/ SeededCalls(SmallObjs)

Spec == InitMain /\ [][Next]_vars

\* the seeded generator alone, on a heap deep enough for threaded chains
InitSeeded ==
    /\ Init
    /\ rng = [t \in Threads |-> 0]

NextSeeded == SeededCalls(MaxObjs)

SpecSeeded == InitSeeded /\ [][NextSeeded]_vars

\* the draws on the thread-local generators alone, from every thread
NextGlobal == GlobalCalls(Threads)

SpecGlobal == Init /\ [][NextGlobal]_vars

\* ---------------------------------------------------------------------
\* Lineage of a generator value, read off the results the host holds
\* ---------------------------------------------------------------------
IsRoot(j) == \E n \in news : n.gen = j

\* the generator a value was threaded from (itself for a constructed one)
RECURSIVE RootOf(_)
RootOf(j) == IF IsRoot(j) THEN j ELSE RootOf((CHOOSE r \in recs : r.gen = j).src)

\* the seed its chain was constructed from
SeedOf(j) == (CHOOSE n \in news : n.gen = RootOf(j)).seed

\* the number of xor_shift_next calls between the construction and j
RECURSIVE DepthOf(_)
DepthOf(j) == IF IsRoot(j) THEN 0 ELSE 1 + DepthOf((CHOOSE r \in recs : r.gen = j).src)

\* n steps of the mutable algorithm, in place, on one generator
RECURSIVE InPlace(_, _)
InPlace(g, n) == IF n = 0 THEN g ELSE InPlace(next_u32(next_u32(g)), n - 1)

GlobalOps == {"next_int", "next_float", "gen_int_range"}
Failures == {"Panic", "RustPanic"}

\* ---------------------------------------------------------------------
\* Claims
\* ---------------------------------------------------------------------

\* C1: xor_shift_next(G) leaves G unchanged: no step changes a generator
\* value that already exists, and any two calls on the same G, whatever was
\* called in between, return the same value and the same successor state.
C1_NextLeavesInputUnchanged ==
    /\ [](\A r1 \in recs : \A r2 \in recs :
            r1.src = r2.src => r1.value = r2.value /\ heap[r1.gen] = heap[r2.gen])
    /\ [][\A i \in 1..Len(heap) : heap'[i] = heap[i]]_vars

C1_Witness ==
    \E r1 \in recs : \E r2 \in recs : \E r3 \in recs :
        /\ r1.src = r2.src
        /\ r3.src = r1.gen
        /\ r1.gen < r3.gen
        /\ r3.gen < r2.gen

\* C2: xor_shift_new succeeds on every 16-byte seed, and generators
\* constructed independently from the same seed and threaded through the
\* same number of xor_shift_next calls draw the same values.
C2_SameSeedSameSequence ==
    /\ (res.op = "xor_shift_new" /\ Len(res.seed) = SeedLen => res.status = "Return")
    /\ \A r1 \in recs : \A r2 \in recs :
          (SeedOf(r1.src) = SeedOf(r2.src) /\ DepthOf(r1.src) = DepthOf(r2.src))
             => r1.value = r2.value

C2_Witness ==
    \E r1 \in recs : \E r2 \in recs :
        /\ RootOf(r1.src) # RootOf(r2.src)
        /\ SeedOf(r1.src) = SeedOf(r2.src)
        /\ DepthOf(r1.src) = 1
        /\ DepthOf(r2.src) = 1

\* C3: a seed buffer whose length is not 16 makes xor_shift_new return the
\* failure outcome without a generator, and every generator value that
\* exists was constructed from exactly 16 bytes or threaded from one.
C3_BadLengthFails ==
    /\ (res.op = "xor_shift_new" /\ Len(res.seed) # SeedLen
          => res.status = "Panic" /\ res.gen = 0)
    /\ \A n \in news : Len(n.seed) = SeedLen
    /\ \A j \in 1..Len(heap) : IsRoot(j) \/ (\E r \in recs : r.gen = j)

C3_Witness ==
    /\ res.op = "xor_shift_new"
    /\ Len(res.seed) = SeedLen - 1
    /\ res.status = "Panic"
    /\ \E n \in news : \E m \in news : n.seed # m.seed

\* C4: gen_int_range with low >= high fails and returns no value.
C4_EmptyRangeFails ==
    (res.op = "gen_int_range" /\ res.low >= res.high) => res.status = "RustPanic"

C4_Witness ==
    /\ res.op = "gen_int_range"
    /\ res.low > res.high
    /\ res.status = "RustPanic"

\* C5 (as stated): the invalid-range failure is an explicit error outcome
\* produced by gen_int_range's own check, and the calling thread goes on.
C5_RangeFailureIsRecoverable ==
    (res.op = "gen_int_range" /\ res.low >= res.high)
        => res.status = "Exception" /\ alive[res.t]

\* C6: with low < high, whatever was drawn before, gen_int_range returns a
\* value v with low <= v < high.
C6_ValueInRange ==
    (res.op = "gen_int_range" /\ res.low < res.high)
        => res.status = "Value" /\ res.low <= res.value /\ res.value < res.high

C6_Witness ==
    /\ res.op = "gen_int_range"
    /\ res.status = "Value"
    /\ res.low = 0 - (Mod \div 2)
    /\ res.high = (Mod \div 2) - 1
    /\ res.value = res.high - 1

\* C7: a failing call (xor_shift_new on a bad length, gen_int_range on an
\* empty range) leaves every thread's generator and every seeded generator
\* value as they were.
C7_FailureLeavesStateAlone ==
    [][res'.status \in Failures
         => rng' = rng /\ heap' = heap /\ news' = news /\ recs' = recs]_vars

C7_Witness ==
    /\ res.op = "xor_shift_new"
    /\ res.status \in Failures
    /\ recs # {}
    /\ ~alive[MainThread]

\* C8 (as stated): the message of the failed xor_shift_new states the
\* expectation that was validated, 16 bytes.
C8_MessageStatesSixteenBytes ==
    (res.op = "xor_shift_new" /\ res.status = "Panic")
        => res.msg.expected = SeedLen /\ res.msg.unit = "bytes"

\* C9: a global draw reads and advances only the calling thread's own
\* generator: the generator of every other thread is left as it was and the
\* value drawn is the one the caller's own generator yields.
C9_DrawsAreThreadLocal ==
    [][res'.op \in GlobalOps =>
         /\ \A u \in Threads \ {res'.t} : rng'[u] = rng[u]
         /\ res'.op = "next_int" => res'.value = ToSigned(ThreadStep(rng[res'.t]))
         /\ res'.op = "next_float" => res'.value = ThreadStep(rng[res'.t])
         /\ (res'.op = "gen_int_range" /\ res'.status = "Value")
               => res'.value = gen_range(rng[res'.t], res'.low, res'.high).value]_vars

C9_Witness ==
    /\ res.op = "next_int"
    /\ res.t = 2
    /\ ~alive[1]

\* C10: the gen field returned by xor_shift_next is the post-step state:
\* a chain threaded n times from a constructed generator is in the state,
\* and draws the values, of n in-place steps of the mutable algorithm.
C10_ThreadingMatchesInPlace ==
    \A r \in recs :
        LET g0 == from_seed(SeedOf(r.src))
            n == DepthOf(r.src)
        IN /\ heap[r.src] = InPlace(g0, n)
           /\ r.value = gen_i64(InPlace(g0, n)).value
           /\ heap[r.gen] = InPlace(g0, n + 1)

C10_Witness ==
    \E r \in recs : DepthOf(r.src) >= 2 /\ heap[r.gen] # heap[r.src]

====
